---- MODULE Spec2Model ----
(***************************************************************************)
(* Route 53 hosted-zone backup function                                    *)
(* (src/Lambda/route53_config_backup_function.py).                         *)
(*                                                                         *)
(* One invocation of handler is modelled as a sequential state machine     *)
(* whose steps are cut at the calls to the external services (Route 53,    *)
(* the environment, S3, AWS Config).  Python strings are sequences of      *)
(* tokens (one-character strings for the strings the code takes apart,     *)
(* whole words for fixed text), so that split, rstrip and the f-strings    *)
(* are computed and not assumed.  An Optional value is <<>> for None and   *)
(* <<v>> for a value v; a dict with optional keys is a function whose      *)
(* domain is the set of keys present; an opaque dict payload is a set of   *)
(* <<key, value>> pairs.                                                   *)
(***************************************************************************)
EXTENDS Integers, Sequences, FiniteSets

VARIABLES
    pc,                  \* position of the invocation in handler
    event,               \* the AWSConfigRuleEvent handed to handler
    environ,             \* os.environ
    compliance,          \* handler locals, named as in the source
    annotation,
    hosted_zone_id,
    account_id,
    trigger_type,
    zone_details,
    hosted_zone_details, \* locals of fetch_hosted_zone_details
    record_sets,
    metadata,
    backup_data,
    s3_key,
    bucket_name,
    success,
    zoneRequests,        \* Ids passed to aws_route53.get_hosted_zone
    pagesReturned,       \* pages the paginator has yielded so far
    fetchFailed,         \* a Route 53 call of this invocation has raised
    putObjectCalls,      \* arguments of every aws_s3.put_object call issued
    writeError,          \* Optional: what put_object raised
    putEvaluationsCalls, \* arguments of every call of put_evaluations
    delivered,           \* evaluations accepted by aws_config.put_evaluations
    escaped,             \* Optional: the exception that left handler
    arg,                 \* argument of the pure function under check
    ret                  \* Optional: its result

extracted == <<hosted_zone_id, account_id, trigger_type>>
fetched == <<zone_details, hosted_zone_details, record_sets>>
built == <<metadata, backup_data, s3_key>>
uploaded == <<bucket_name, success>>
locals == <<extracted, fetched, built, uploaded>>
verdict == <<compliance, annotation>>
route53 == <<zoneRequests, pagesReturned, fetchFailed>>
s3 == <<putObjectCalls, writeError>>
config == <<putEvaluationsCalls, delivered, escaped>>
inputs == <<event, environ>>
harness == <<arg, ret>>
vars == <<pc, inputs, verdict, locals, route53, s3, config, harness>>

\* ---------------------------------------------------------------- bounds

MaxPages == 3
MaxRecords == 2
MaxNameLen == 6
MaxBackupRecords == 2

\* ------------------------------------------------------- values and text

None == <<>>
Some(v) == <<v>>
Unbound == "<unbound>"

SeqsUpTo(S, n) == UNION {[1..k -> S] : k \in 0..n}

RECURSIVE Flatten(_)
Flatten(pages) ==
    IF pages = <<>> THEN <<>> ELSE Head(pages) \o Flatten(Tail(pages))

RECURSIVE SumLen(_)
SumLen(pages) ==
    IF pages = <<>> THEN 0 ELSE Len(Head(pages)) + SumLen(Tail(pages))

\* s has t as a contiguous part (Python's `t in s`)
Contains(s, t) ==
    \E i \in 0..(Len(s) - Len(t)) : SubSeq(s, i + 1, i + Len(t)) = t

\* str.rstrip(chars)
RECURSIVE rstrip(_, _)
rstrip(s, chars) ==
    IF s # <<>> /\ s[Len(s)] \in chars
    THEN rstrip(SubSeq(s, 1, Len(s) - 1), chars)
    ELSE s

\* str.split(sep)[-1]
RECURSIVE split_last(_, _)
split_last(s, sep) ==
    IF s = <<>> \/ s[Len(s)] = sep
    THEN <<>>
    ELSE split_last(SubSeq(s, 1, Len(s) - 1), sep) \o <<s[Len(s)]>>

\* ------------------------------------------------------------ ConfigItem

hosted_zone_id_of(resource_id) == split_last(resource_id, "/")

\* ----------------------------------------------------- ResourceRecordSet

RecordKeys == {"Name", "Type", "TTL", "ResourceRecords", "AliasTarget"}

\* dict.get(key) and dict.get(key, default)
Get(data, key) == IF key \in DOMAIN data THEN Some(data[key]) ELSE None
GetOr(data, key, default) == IF key \in DOMAIN data THEN data[key] ELSE default

from_dict(data) ==
    [name             |-> GetOr(data, "Name", <<>>),
     type             |-> GetOr(data, "Type", <<>>),
     ttl              |-> Get(data, "TTL"),
     resource_records |-> GetOr(data, "ResourceRecords", <<>>),
     alias_target     |-> Get(data, "AliasTarget")]

\* ----------------------------------------------------- HostedZoneDetails

normalized_name_strip_one(name) ==
    IF name # <<>> /\ name[Len(name)] = "."
    THEN SubSeq(name, 1, Len(name) - 1)
    ELSE name

normalized_name(name) == rstrip(name, {"."})

\* -------------------------------------------------------- BackupMetadata

to_dict(m) ==
    [accountId      |-> m.account_id,
     hostedZoneId   |-> m.hosted_zone_id,
     hostedZoneName |-> m.hosted_zone_name,
     triggerType    |-> m.trigger_type,
     timestamp      |-> m.timestamp,
     backupId       |-> m.backup_id]

\* ---------------------------------------------------- create_backup_data

\* Python truth value of an Optional[int], a list, an Optional[dict]
TruthyInt(opt) == opt # None /\ opt[1] # 0
TruthyList(l) == Len(l) > 0
TruthyDict(opt) == opt # None /\ opt[1] # {}

RrsDict(rrs, keys) ==
    [k \in keys |->
        CASE k = "Name" -> rrs.name
          [] k = "Type" -> rrs.type
          [] k = "TTL" -> rrs.ttl
          [] k = "ResourceRecords" -> rrs.resource_records
          [] k = "AliasTarget" -> rrs.alias_target]

serialize_record_set_all_keys(rrs) == RrsDict(rrs, RecordKeys)

serialize_record_set(rrs) ==
    RrsDict(rrs,
        {"Name", "Type"}
        \cup (IF TruthyInt(rrs.ttl) THEN {"TTL"} ELSE {})
        \cup (IF TruthyList(rrs.resource_records) THEN {"ResourceRecords"} ELSE {})
        \cup (IF TruthyDict(rrs.alias_target) THEN {"AliasTarget"} ELSE {}))

create_backup_data(zd, md) ==
    [metadata           |-> to_dict(md),
     hostedZone         |-> zd.config,
     resourceRecordSets |->
        [i \in 1..Len(zd.resource_record_sets) |->
            serialize_record_set(zd.resource_record_sets[i])]]

\* ---------------------------------------------------------------- inputs

HostedZoneType == <<"AWS::Route53::HostedZone">>
ChangeNotification == <<"ConfigurationItemChangeNotification">>

ResourceIds == {<<"Z">>, <<"/", "h", "/", "Z">>, <<"h", "/", "Z">>}
MessageTypes ==
    {ChangeNotification,
     <<"OversizedConfigurationItemChangeNotification">>,
     <<"ScheduledNotification">>}

FullEvent(r, m) ==
    [resourceId                   |-> r,
     resourceType                 |-> HostedZoneType,
     accountId                    |-> <<"111122223333">>,
     messageType                  |-> m,
     configurationItemCaptureTime |-> <<"2024-01-01T00:00:00Z">>,
     resultToken                  |-> <<"token">>]

Without(d, key) == [k \in DOMAIN d \ {key} |-> d[k]]

\* the complete events, and events lacking one of the fields handler extracts
Events ==
    {FullEvent(r, m) : r \in ResourceIds, m \in MessageTypes}
    \cup {Without(FullEvent(<<"Z">>, ChangeNotification), k) :
            k \in {"resourceId", "accountId", "messageType"}}

Environs ==
    {[k \in {"BACKUP_BUCKET_NAME"} |-> <<"backup-bucket">>],
     [k \in {} |-> <<>>]}

ZoneNames == {<<"a">>, <<"a", ".">>, <<"a", ".", ".">>}
Timestamps == {<<"20240101T000000Z">>}
BackupIds == {<<"uuid4">>}

\* a raw record set of list_resource_record_sets: the keys given as Some
RawRecord(name, ttl, rr, alias) ==
    LET keys == (IF name # None THEN {"Name", "Type"} ELSE {})
                \cup (IF ttl # None THEN {"TTL"} ELSE {})
                \cup (IF rr # None THEN {"ResourceRecords"} ELSE {})
                \cup (IF alias # None THEN {"AliasTarget"} ELSE {})
    IN  [k \in keys |->
            CASE k = "Name" -> name[1]
              [] k = "Type" -> <<"A">>
              [] k = "TTL" -> ttl[1]
              [] k = "ResourceRecords" -> rr[1]
              [] k = "AliasTarget" -> alias[1]]

TtlValues == {0, 300}
RecordValue == [Value |-> <<"192.0.2.1">>]
AliasValue == {<<"DNSName", <<"lb.example.">>>>}

RawRecords ==
    {RawRecord(Some(<<"www">>), t, r, a) :
        t \in {None} \cup {Some(n) : n \in TtlValues},
        r \in {None, Some(<<>>), Some(<<RecordValue>>)},
        a \in {None, Some({}), Some(AliasValue)}}
    \cup {RawRecord(None, None, None, None)}

PageRecords ==
    {RawRecord(Some(<<"www">>), Some(300), Some(<<RecordValue>>), None),
     RawRecord(Some(<<"api">>), None, None, Some(AliasValue))}

Pages == SeqsUpTo(PageRecords, MaxRecords)

Route53Errors == {<<"NoSuchHostedZone">>, <<"Throttling">>}
S3Errors == {<<"AccessDenied">>}
ConfigErrors == {<<"InvalidResultToken">>}
RuntimeErrors == {<<"MemoryError">>}

\* str(KeyError(key))
KeyError(key) == <<"'", key, "'">>

\* --------------------------------------------------------------- handler

Terminated == pc \in {"done", "raised"}

\* except Exception as e: annotation = f"Error processing hosted zone: {str(e)}"
RaiseUncaught(e) ==
    /\ pc' = "raised"
    /\ UNCHANGED verdict

Raise(e) ==
    /\ pc' = "report"
    /\ annotation' = <<"Error processing hosted zone: ">> \o e
    /\ UNCHANGED compliance

HandlerEntry ==
    /\ pc = "entry"
    /\ compliance' = "NON_COMPLIANT"
    /\ annotation' = <<>>
    /\ pc' = "extract"
    /\ UNCHANGED <<inputs, locals, route53, s3, config, harness>>

trigger_type_inverted(message_type) ==
    IF message_type = ChangeNotification THEN "creation" ELSE "change"

trigger_type_of(message_type) ==
    IF message_type = ChangeNotification THEN "change" ELSE "creation"

ExtractEventFields ==
    /\ pc = "extract"
    /\ hosted_zone_id' =
          IF "resourceId" \in DOMAIN event THEN event["resourceId"] ELSE hosted_zone_id
    /\ account_id' =
          IF {"resourceId", "accountId"} \subseteq DOMAIN event
          THEN event["accountId"] ELSE account_id
    /\ trigger_type' =
          IF {"resourceId", "accountId", "messageType"} \subseteq DOMAIN event
          THEN trigger_type_of(event["messageType"]) ELSE trigger_type
    /\ IF "resourceId" \notin DOMAIN event THEN Raise(KeyError("resourceId"))
       ELSE IF "accountId" \notin DOMAIN event THEN Raise(KeyError("accountId"))
       ELSE IF "messageType" \notin DOMAIN event THEN Raise(KeyError("messageType"))
       ELSE pc' = "get_hosted_zone" /\ UNCHANGED verdict
    /\ UNCHANGED <<inputs, fetched, built, uploaded, route53, s3, config, harness>>

\* ----------------------------------------------- fetch_hosted_zone_details

GetHostedZone(name) ==
    /\ pc = "get_hosted_zone"
    /\ zoneRequests' = Append(zoneRequests, hosted_zone_id)
    /\ hosted_zone_details' =
          [id |-> hosted_zone_id, name |-> name, config |-> {<<"Name", name>>},
           resource_record_sets |-> <<>>]
    /\ record_sets' = <<>>
    /\ pc' = "paginate"
    /\ UNCHANGED <<inputs, verdict, extracted, zone_details, built, uploaded,
                   pagesReturned, fetchFailed, s3, config, harness>>

GetHostedZoneFails(e) ==
    /\ pc = "get_hosted_zone"
    /\ zoneRequests' = Append(zoneRequests, hosted_zone_id)
    /\ fetchFailed' = TRUE
    /\ Raise(e)
    /\ UNCHANGED <<inputs, locals, pagesReturned, s3, config, harness>>

append_page_dedup(rs, page) ==
    LET new == [i \in 1..Len(page) |-> from_dict(page[i])]
    IN  rs \o SelectSeq(new, LAMBDA r : \A j \in 1..Len(rs) : rs[j] # r)

\* for record_set in page["ResourceRecordSets"]: record_sets.append(from_dict(..))
append_page(rs, page) == rs \o [i \in 1..Len(page) |-> from_dict(page[i])]

FetchPage(page) ==
    /\ pc = "paginate"
    /\ Len(pagesReturned) < MaxPages
    /\ SumLen(pagesReturned) + Len(page) <= MaxRecords
    /\ pagesReturned' = Append(pagesReturned, page)
    /\ record_sets' = append_page(record_sets, page)
    /\ UNCHANGED <<pc, inputs, verdict, extracted, zone_details, hosted_zone_details,
                   built, uploaded, zoneRequests, fetchFailed, s3, config, harness>>

page_error_swallowed(e) ==
    /\ pc' = pc
    /\ UNCHANGED verdict

\* an exception of the page iterator leaves fetch_hosted_zone_details
page_error(e) == Raise(e)

FetchPageFails(e) ==
    /\ pc = "paginate"
    /\ fetchFailed' = TRUE
    /\ page_error(e)
    /\ UNCHANGED <<inputs, locals, zoneRequests, pagesReturned, s3, config, harness>>

PagesExhausted ==
    /\ pc = "paginate"
    /\ Len(pagesReturned) >= 1
    /\ hosted_zone_details' =
          [hosted_zone_details EXCEPT !.resource_record_sets = record_sets]
    /\ zone_details' = hosted_zone_details'
    /\ pc' = "metadata"
    /\ UNCHANGED <<inputs, verdict, extracted, record_sets, built, uploaded,
                   route53, s3, config, harness>>

\* ------------------------------------------------- metadata, document, key

s3_key_of(account, zone_name, trigger, timestamp) ==
    <<"route53-backup/">> \o account \o <<"/">> \o zone_name \o <<"/">>
        \o <<trigger>> \o <<"-">> \o timestamp \o <<".json">>

BuildBackup(ts, id) ==
    /\ pc = "metadata"
    /\ metadata' =
          [account_id       |-> account_id,
           hosted_zone_id   |-> hosted_zone_id,
           hosted_zone_name |-> normalized_name(zone_details.name),
           trigger_type     |-> trigger_type,
           timestamp        |-> ts,
           backup_id        |-> id]
    /\ backup_data' = create_backup_data(zone_details, metadata')
    /\ s3_key' = s3_key_of(account_id, normalized_name(zone_details.name),
                           trigger_type, ts)
    /\ pc' = "bucket"
    /\ UNCHANGED <<inputs, verdict, extracted, fetched, uploaded, route53, s3,
                   config, harness>>

BuildBackupFails(e) ==
    /\ pc = "metadata"
    /\ Raise(e)
    /\ UNCHANGED <<inputs, locals, route53, s3, config, harness>>

ReadBucketName ==
    /\ pc = "bucket"
    /\ IF "BACKUP_BUCKET_NAME" \in DOMAIN environ
       THEN /\ bucket_name' = environ["BACKUP_BUCKET_NAME"]
            /\ pc' = "upload"
            /\ UNCHANGED verdict
       ELSE /\ Raise(KeyError("BACKUP_BUCKET_NAME"))
            /\ UNCHANGED bucket_name
    /\ UNCHANGED <<inputs, extracted, fetched, built, success, route53, s3,
                   config, harness>>

\* ------------------------------------------------------------ upload_to_s3

PutObjectArgs == [Bucket |-> bucket_name, Key |-> s3_key, Body |-> backup_data]

UploadToS3Ok ==
    /\ pc = "upload"
    /\ putObjectCalls' = Append(putObjectCalls, PutObjectArgs)
    /\ success' = Some(TRUE)
    /\ pc' = "verdict"
    /\ UNCHANGED <<inputs, verdict, extracted, fetched, built, bucket_name,
                   route53, writeError, config, harness>>

upload_error_propagates(e) ==
    /\ UNCHANGED success
    /\ Raise(e)

\* except Exception as e: logger.error(...); return False
upload_error(e) ==
    /\ success' = Some(FALSE)
    /\ pc' = "verdict"
    /\ UNCHANGED verdict

UploadToS3Throws(e) ==
    /\ pc = "upload"
    /\ putObjectCalls' = Append(putObjectCalls, PutObjectArgs)
    /\ writeError' = Some(e)
    /\ upload_error(e)
    /\ UNCHANGED <<inputs, extracted, fetched, built, bucket_name, route53,
                   config, harness>>

compliance_always(ok, current) == "COMPLIANT"

compliance_after_upload(ok, current) == IF ok THEN "COMPLIANT" ELSE current

annotation_after_upload(ok, zone_id) ==
    IF ok
    THEN <<"Successfully backed up hosted zone ">> \o zone_id
    ELSE <<"Failed to upload backup for hosted zone ">> \o zone_id

SetVerdict ==
    /\ pc = "verdict"
    /\ compliance' = compliance_after_upload(success[1], compliance)
    /\ annotation' = annotation_after_upload(success[1], hosted_zone_id)
    /\ pc' = "report"
    /\ UNCHANGED <<inputs, locals, route53, s3, config, harness>>

\* --------------------------------------------------------- put_evaluations

EvaluationKeys ==
    <<"resourceType", "resourceId", "configurationItemCaptureTime", "resultToken">>

MissingEvaluationKeys ==
    SelectSeq(EvaluationKeys, LAMBDA k : k \notin DOMAIN event)

Evaluation ==
    [ComplianceResourceType |-> event["resourceType"],
     ComplianceResourceId   |-> event["resourceId"],
     ComplianceType         |-> compliance,
     OrderingTimestamp      |-> event["configurationItemCaptureTime"],
     Annotation             |-> annotation,
     ResultToken            |-> event["resultToken"]]

PutEvaluationsArgs == [compliance |-> compliance, annotation |-> annotation]

PutEvaluationsBadEvent ==
    /\ pc = "report"
    /\ MissingEvaluationKeys # <<>>
    /\ putEvaluationsCalls' = Append(putEvaluationsCalls, PutEvaluationsArgs)
    /\ escaped' = Some(KeyError(Head(MissingEvaluationKeys)))
    /\ pc' = "raised"
    /\ UNCHANGED <<inputs, verdict, locals, route53, s3, delivered, harness>>

PutEvaluationsOk ==
    /\ pc = "report"
    /\ MissingEvaluationKeys = <<>>
    /\ putEvaluationsCalls' = Append(putEvaluationsCalls, PutEvaluationsArgs)
    /\ delivered' = Append(delivered, Evaluation)
    /\ pc' = "done"
    /\ UNCHANGED <<inputs, verdict, locals, route53, s3, escaped, harness>>

PutEvaluationsFails(e) ==
    /\ pc = "report"
    /\ MissingEvaluationKeys = <<>>
    /\ putEvaluationsCalls' = Append(putEvaluationsCalls, PutEvaluationsArgs)
    /\ escaped' = Some(e)
    /\ pc' = "raised"
    /\ UNCHANGED <<inputs, verdict, locals, route53, s3, delivered, harness>>

\* --------------------------------------------------------- specifications

\* the locals before their first assignment: placeholders of the values' shapes
UnboundZone ==
    [id |-> <<Unbound>>, name |-> <<Unbound>>, config |-> {},
     resource_record_sets |-> <<>>]

UnboundMetadata ==
    [account_id |-> <<Unbound>>, hosted_zone_id |-> <<Unbound>>,
     hosted_zone_name |-> <<Unbound>>, trigger_type |-> Unbound,
     timestamp |-> <<Unbound>>, backup_id |-> <<Unbound>>]

UnboundBackup ==
    [metadata |-> to_dict(UnboundMetadata), hostedZone |-> {},
     resourceRecordSets |-> <<>>]

InitLocals ==
    /\ compliance = Unbound
    /\ annotation = <<Unbound>>
    /\ hosted_zone_id = <<Unbound>>
    /\ account_id = <<Unbound>>
    /\ trigger_type = Unbound
    /\ zone_details = UnboundZone
    /\ hosted_zone_details = UnboundZone
    /\ record_sets = <<>>
    /\ metadata = UnboundMetadata
    /\ backup_data = UnboundBackup
    /\ s3_key = <<Unbound>>
    /\ bucket_name = <<Unbound>>
    /\ success = None

InitServices ==
    /\ zoneRequests = <<>>
    /\ pagesReturned = <<>>
    /\ fetchFailed = FALSE
    /\ putObjectCalls = <<>>
    /\ writeError = None
    /\ putEvaluationsCalls = <<>>
    /\ delivered = <<>>
    /\ escaped = None

Init ==
    /\ pc = "entry"
    /\ event \in Events
    /\ environ \in Environs
    /\ InitLocals
    /\ InitServices
    /\ arg = <<>>
    /\ ret = None

Next ==
    \/ HandlerEntry
    \/ ExtractEventFields
    \/ \E name \in ZoneNames : GetHostedZone(name)
    \/ \E e \in Route53Errors : GetHostedZoneFails(e)
    \/ \E page \in Pages : FetchPage(page)
    \/ \E e \in Route53Errors : FetchPageFails(e)
    \/ PagesExhausted
    \/ \E ts \in Timestamps, id \in BackupIds : BuildBackup(ts, id)
    \/ \E e \in RuntimeErrors : BuildBackupFails(e)
    \/ ReadBucketName
    \/ UploadToS3Ok
    \/ \E e \in S3Errors : UploadToS3Throws(e)
    \/ SetVerdict
    \/ PutEvaluationsOk
    \/ PutEvaluationsBadEvent
    \/ \E e \in ConfigErrors : PutEvaluationsFails(e)

Spec == Init /\ [][Next]_vars

FairSpec == Spec /\ WF_vars(Next)

\* --------------------------------------- normalized_name as a pure function

NameChars == {"a", "."}

InitName ==
    /\ pc = "normalized_name"
    /\ event = FullEvent(<<"Z">>, ChangeNotification)
    /\ environ \in Environs /\ DOMAIN environ # {}
    /\ InitLocals
    /\ InitServices
    /\ arg \in SeqsUpTo(NameChars, MaxNameLen)
    /\ ret = None

CallNormalizedName ==
    /\ pc = "normalized_name"
    /\ ret' = Some(normalized_name(arg))
    /\ pc' = "returned"
    /\ UNCHANGED <<inputs, verdict, locals, route53, s3, config, arg>>

NextName == CallNormalizedName

SpecName == InitName /\ [][NextName]_vars

\* ------------------ from_dict and create_backup_data as a pure function

InitRecords ==
    /\ pc = "create_backup_data"
    /\ event = FullEvent(<<"Z">>, ChangeNotification)
    /\ environ \in Environs /\ DOMAIN environ # {}
    /\ InitLocals
    /\ InitServices
    /\ arg \in SeqsUpTo(RawRecords, MaxBackupRecords)
    /\ ret = None

CallCreateBackupData ==
    /\ pc = "create_backup_data"
    /\ ret' = Some(create_backup_data(
                  [id |-> <<"Z">>, name |-> <<"a", ".">>,
                   config |-> {<<"Name", <<"a", ".">>>>},
                   resource_record_sets |-> append_page(<<>>, arg)],
                  [account_id |-> <<"111122223333">>, hosted_zone_id |-> <<"Z">>,
                   hosted_zone_name |-> <<"a">>, trigger_type |-> "change",
                   timestamp |-> <<"20240101T000000Z">>, backup_id |-> <<"uuid4">>]))
    /\ pc' = "returned"
    /\ UNCHANGED <<inputs, verdict, locals, route53, s3, config, arg>>

NextRecords == CallCreateBackupData

SpecRecords == InitRecords /\ [][NextRecords]_vars

\* ---------------------------------------------------------------- claims

Reported(i) == putEvaluationsCalls[i]

\* the records of every page yielded so far, converted, in page order
Aggregated ==
    [i \in 1..Len(Flatten(pagesReturned)) |-> from_dict(Flatten(pagesReturned)[i])]

\* fetch_hosted_zone_details has returned to handler
ZoneFetched ==
    zoneRequests # <<>> /\ ~fetchFailed /\ pc \notin {"get_hosted_zone", "paginate"}

\* metadata, document and key of this invocation exist
Built == s3_key # <<Unbound>>

\* C1: whichever step of handler fails, or none, the invocation ends having
\* called put_evaluations exactly once: never twice at any point, and it
\* reaches its end with one call made.
C1_ReportedExactlyOnce ==
    /\ [](Len(putEvaluationsCalls) <= 1)
    /\ <>(Terminated /\ Len(putEvaluationsCalls) = 1)

\* an invocation whose record-set fetch raised has ended with its one report made
C1_Witness ==
    /\ pc = "done"
    /\ fetchFailed
    /\ pagesReturned # <<>>
    /\ Len(putEvaluationsCalls) = 1

\* C2: the verdict starts NON_COMPLIANT with an empty annotation; the verdict
\* passed to put_evaluations is COMPLIANT, with a non-empty annotation, only
\* if upload_to_s3 returned True, and is NON_COMPLIANT whenever it did not.
C2_CompliantOnlyAfterWrite ==
    /\ pc = "extract" => compliance = "NON_COMPLIANT" /\ annotation = <<>>
    /\ \A i \in DOMAIN putEvaluationsCalls :
          /\ Reported(i).compliance \in {"COMPLIANT", "NON_COMPLIANT"}
          /\ Reported(i).compliance = "COMPLIANT" =>
                success = Some(TRUE) /\ Reported(i).annotation # <<>>
          /\ success # Some(TRUE) => Reported(i).compliance = "NON_COMPLIANT"

\* a COMPLIANT evaluation was delivered after a successful write
C2_Witness ==
    /\ pc = "done"
    /\ success = Some(TRUE)
    /\ Len(delivered) = 1
    /\ delivered[1].ComplianceType = "COMPLIANT"

\* C3 as stated: after put_object throws, upload_to_s3 returns False, there
\* is one NON_COMPLIANT report whose annotation contains the reason of the
\* write failure, and the exception of the write does not leave handler.
C3_Original ==
    (writeError # None /\ Terminated) =>
        /\ success = Some(FALSE)
        /\ Len(putEvaluationsCalls) = 1
        /\ Reported(1).compliance = "NON_COMPLIANT"
        /\ Contains(Reported(1).annotation, writeError[1])
        /\ escaped # writeError

\* C3 amended: after put_object throws, upload_to_s3 returns False,
\* put_evaluations is called once with NON_COMPLIANT and the fixed text
\* "Failed to upload backup for hosted zone <resource id>", which does not
\* carry the reason of the write failure, and the only exception that can
\* leave handler is one raised by the report itself.
C3_WriteFailureReported ==
    (writeError # None /\ Terminated) =>
        /\ success = Some(FALSE)
        /\ Len(putEvaluationsCalls) = 1
        /\ Reported(1).compliance = "NON_COMPLIANT"
        /\ Reported(1).annotation =
              <<"Failed to upload backup for hosted zone ">> \o event["resourceId"]
        /\ ~Contains(Reported(1).annotation, writeError[1])
        /\ escaped # None =>
              escaped[1] \in ConfigErrors \cup {KeyError(k) : k \in DOMAIN FullEvent(<<>>, <<>>)}
        /\ escaped = None <=> pc = "done"

\* the write threw and the invocation ended normally, the report delivered
C3_Witness ==
    /\ pc = "done"
    /\ writeError # None
    /\ Len(delivered) = 1

\* C4: put_object is issued at most once, only after get_hosted_zone and all
\* page fetches succeeded, with a document holding the records of all pages;
\* once a Route 53 call has raised, put_object is never issued.
C4_NoPartialBackup ==
    /\ Len(putObjectCalls) <= 1
    /\ fetchFailed => putObjectCalls = <<>>
    /\ putObjectCalls # <<>> =>
          /\ ZoneFetched
          /\ Len(zoneRequests) = 1
          /\ pagesReturned # <<>>
          /\ LET doc == putObjectCalls[1].Body
                 all == Flatten(pagesReturned)
             IN  /\ Len(doc.resourceRecordSets) = SumLen(pagesReturned)
                 /\ \A i \in 1..Len(all) :
                       /\ doc.resourceRecordSets[i]["Name"] = all[i]["Name"]
                       /\ doc.resourceRecordSets[i]["Type"] = all[i]["Type"]

\* a document of several pages was written
C4_Witness ==
    /\ putObjectCalls # <<>>
    /\ Len(pagesReturned) >= 2
    /\ Len(putObjectCalls[1].Body.resourceRecordSets) >= 2

\* C5 as stated: the id handed to get_hosted_zone and recorded as hostedZoneId
\* is the last "/"-separated segment of the event's resource id.
C5_Original ==
    /\ \A i \in DOMAIN zoneRequests :
          zoneRequests[i] = hosted_zone_id_of(event["resourceId"])
    /\ Built =>
          backup_data.metadata.hostedZoneId = hosted_zone_id_of(event["resourceId"])

\* C6: the record sets fetch_hosted_zone_details collects and returns are the
\* records of the pages in page order and within-page order, as many as the
\* page sizes add up to.
C6_PagesConcatenated ==
    /\ pc = "paginate" =>
          record_sets = Aggregated /\ Len(record_sets) = SumLen(pagesReturned)
    /\ ZoneFetched =>
          /\ zone_details.resource_record_sets = Aggregated
          /\ Len(zone_details.resource_record_sets) = SumLen(pagesReturned)

\* the fetch returned after an empty page and a page holding one record twice
C6_Witness ==
    /\ ZoneFetched
    /\ \E i \in DOMAIN pagesReturned : pagesReturned[i] = <<>>
    /\ \E i \in DOMAIN pagesReturned :
          Len(pagesReturned[i]) = 2 /\ pagesReturned[i][1] = pagesReturned[i][2]

\* C7 as stated: normalized_name removes exactly one trailing "." if there is
\* one, and nothing otherwise.
C7_Original ==
    ret # None =>
        ret[1] = IF arg # <<>> /\ arg[Len(arg)] = "."
                 THEN SubSeq(arg, 1, Len(arg) - 1)
                 ELSE arg

\* C7 amended: normalized_name removes every trailing ".": the result is the
\* name without its longest run of trailing dots, so it never ends in ".",
\* and a name that does not end in "." is returned unchanged.
C7_StripsAllTrailingDots ==
    ret # None =>
        /\ Len(ret[1]) <= Len(arg)
        /\ ret[1] = SubSeq(arg, 1, Len(ret[1]))
        /\ \A i \in (Len(ret[1]) + 1)..Len(arg) : arg[i] = "."
        /\ ret[1] = <<>> \/ ret[1][Len(ret[1])] # "."

\* a name ending in several dots was normalized
C7_Witness ==
    /\ ret # None
    /\ Len(arg) >= 3
    /\ arg[Len(arg)] = "." /\ arg[Len(arg) - 1] = "."
    /\ ret[1] # <<>>

\* C8: a serialized record set always has Name and Type; TTL, ResourceRecords
\* and AliasTarget are keys of it only with a value that is neither null nor
\* an empty container, and are no keys of it when the upstream record lacks
\* the field or has it empty.
C8_NoEmptyPlaceholders ==
    ret # None =>
        /\ Len(ret[1].resourceRecordSets) = Len(arg)
        /\ \A i \in 1..Len(arg) :
              LET d == ret[1].resourceRecordSets[i]
                  raw == arg[i]
              IN  /\ {"Name", "Type"} \subseteq DOMAIN d
                  /\ DOMAIN d \subseteq RecordKeys
                  /\ "TTL" \in DOMAIN d => d["TTL"] # None
                  /\ "ResourceRecords" \in DOMAIN d => d["ResourceRecords"] # <<>>
                  /\ "AliasTarget" \in DOMAIN d =>
                        d["AliasTarget"] # None /\ d["AliasTarget"][1] # {}
                  /\ "TTL" \notin DOMAIN raw => "TTL" \notin DOMAIN d
                  /\ ("ResourceRecords" \notin DOMAIN raw
                        \/ GetOr(raw, "ResourceRecords", <<>>) = <<>>)
                     => "ResourceRecords" \notin DOMAIN d
                  /\ ("AliasTarget" \notin DOMAIN raw
                        \/ GetOr(raw, "AliasTarget", {}) = {})
                     => "AliasTarget" \notin DOMAIN d

\* a record whose resource records and alias target are present but empty,
\* and one with neither key, were serialized with Name and Type alone
C8_Witness ==
    /\ ret # None
    /\ Len(arg) = 2
    /\ {"ResourceRecords", "AliasTarget"} \subseteq DOMAIN arg[1]
    /\ DOMAIN arg[2] = {}
    /\ \A i \in 1..2 : DOMAIN ret[1].resourceRecordSets[i] = {"Name", "Type"}

\* C9: the trigger type in the metadata and in the storage key is "change"
\* when the message type is ConfigurationItemChangeNotification and
\* "creation" for every other message type.
C9_TriggerType ==
    LET expected ==
            IF event["messageType"] = ChangeNotification THEN "change" ELSE "creation"
    IN  /\ pc \in {"get_hosted_zone", "paginate"} => trigger_type = expected
        /\ Built =>
              /\ metadata.trigger_type = expected
              /\ backup_data.metadata.triggerType = expected
              /\ Contains(s3_key, <<"/", expected, "-">>)
              /\ \A i \in DOMAIN s3_key :
                    s3_key[i] \in {"change", "creation"} => s3_key[i] = expected
        /\ \A i \in DOMAIN putObjectCalls :
              /\ putObjectCalls[i].Body.metadata.triggerType = expected
              /\ Contains(putObjectCalls[i].Key, <<"/", expected, "-">>)

\* a backup was written for a message type other than the change notification
C9_Witness ==
    /\ putObjectCalls # <<>>
    /\ event["messageType"] = <<"OversizedConfigurationItemChangeNotification">>
    /\ putObjectCalls[1].Body.metadata.triggerType = "creation"

\* C10 as stated: every upstream record that carries a TTL, 0 included, is
\* serialized with a TTL key holding that value.
C10_Original ==
    ret # None =>
        \A i \in 1..Len(arg) :
            "TTL" \in DOMAIN arg[i] =>
                /\ "TTL" \in DOMAIN ret[1].resourceRecordSets[i]
                /\ ret[1].resourceRecordSets[i]["TTL"] = Some(arg[i]["TTL"])

====
